---- MODULE Spec2Model ----
(***************************************************************************)
(* The Android Integrity Measurement Collector (IMC) of                    *)
(* src/frontends/android/jni/libandroidbridge/byod/imc_android.c as a      *)
(* state machine: the TNC_IMC_* entry points are the actions, the static   *)
(* globals of the file and the agent's connection registry are the state.  *)
(***************************************************************************)
EXTENDS Integers, Sequences, FiniteSets, TLC

(***************************************************************************)
(* Bounds of the model.                                                    *)
(***************************************************************************)
\* connection identifiers are 1..MaxConn
MaxConn == 2
\* an inbound PA-TNC message explored by SpecRecv holds at most MaxLen
\* items, an item being an attribute, a requested pair or a setting name
MaxLen == 3

(***************************************************************************)
(* Program constants.                                                      *)
(***************************************************************************)
TNC_IFIMC_VERSION_1 == 1
PEN_IETF == 0
PEN_ITA == 36906
IETF_ATTR_ATTRIBUTE_REQUEST == 1
IETF_ATTR_PRODUCT_INFORMATION == 2
IETF_ATTR_STRING_VERSION == 4
ITA_ATTR_GET_SETTINGS == 3
ITA_ATTR_SETTINGS == 4

TNC_RESULT_SUCCESS == "TNC_RESULT_SUCCESS"
TNC_RESULT_NOT_INITIALIZED == "TNC_RESULT_NOT_INITIALIZED"
TNC_RESULT_ALREADY_INITIALIZED == "TNC_RESULT_ALREADY_INITIALIZED"
TNC_RESULT_NO_COMMON_VERSION == "TNC_RESULT_NO_COMMON_VERSION"
TNC_RESULT_FATAL == "TNC_RESULT_FATAL"

TNC_CONNECTION_STATE_CREATE == "TNC_CONNECTION_STATE_CREATE"
TNC_CONNECTION_STATE_HANDSHAKE == "TNC_CONNECTION_STATE_HANDSHAKE"
TNC_CONNECTION_STATE_ACCESS_ALLOWED == "TNC_CONNECTION_STATE_ACCESS_ALLOWED"
TNC_CONNECTION_STATE_DELETE == "TNC_CONNECTION_STATE_DELETE"

TNC_IMV_EVALUATION_RESULT_DONT_KNOW == "TNC_IMV_EVALUATION_RESULT_DONT_KNOW"
TNC_IMV_EVALUATION_RESULT_COMPLIANT == "TNC_IMV_EVALUATION_RESULT_COMPLIANT"

\* the null pointer, for the imc_android global
NULL == "NULL"
\* the agent object imc_agent_create returns
AGENT == "imc_agent"

(***************************************************************************)
(* Value spaces.                                                           *)
(***************************************************************************)
ConnIds == 1..MaxConn
\* version numbers around the one supported version
Versions == {TNC_IFIMC_VERSION_1 - 1, TNC_IFIMC_VERSION_1, TNC_IFIMC_VERSION_1 + 1}
\* the new_state values of TNC_IMC_NotifyConnectionChange; ACCESS_ALLOWED
\* stands for the states the switch sends to its default branch
NewStates == {TNC_CONNECTION_STATE_CREATE, TNC_CONNECTION_STATE_HANDSHAKE,
              TNC_CONNECTION_STATE_DELETE, TNC_CONNECTION_STATE_ACCESS_ALLOWED}
EvalResults == {TNC_IMV_EVALUATION_RESULT_DONT_KNOW,
                TNC_IMV_EVALUATION_RESULT_COMPLIANT}

\* the two entry points that take an inbound message
ReceiveOps == {"ReceiveMessage", "ReceiveMessageLong"}

\* pen_type_t
PenType(v, t) == [vendor_id |-> v, type |-> t]

\* registry slot of a connection identifier without a state record
NoState == [present |-> FALSE, state |-> "", result |-> ""]
\* empty registry of a fresh agent
EmptyRegistry == [c \in ConnIds |-> NoState]

VARIABLES
  imc_android,   \* the static imc_agent_t *imc_android: NULL or AGENT
  agents,        \* number of live imc_agent_t objects (created, not destroyed)
  libpts,        \* libpts_init calls minus libpts_deinit calls
  states,        \* the agent's connection registry: ConnIds -> record
  last,          \* the last entry point call: inputs, result, effects
  framed,        \* a message for the record of connection 1 failed to parse
  threads,       \* per connection: the entry point call its thread is in
  jni            \* the static android_imc and android_imc_cls references, and
                 \* the foreign runtime calls of the last function using them

vars == <<imc_android, agents, libpts, states, last, framed, threads, jni>>


(***************************************************************************)
(* Connection State Registry of the agent (imc_agent_t, imc_state_t).      *)
(***************************************************************************)
\* the record of a connection identifier right after its creation
imc_android_state_create(connection_id) ==
  [present |-> TRUE, state |-> TNC_CONNECTION_STATE_CREATE,
   result |-> TNC_IMV_EVALUATION_RESULT_DONT_KNOW]

\* imc_agent_t.create_state: fails if the identifier already has a record
create_state(reg, connection_id, state) ==
  IF reg[connection_id].present
  THEN [result |-> TNC_RESULT_FATAL, states |-> reg]
  ELSE [result |-> TNC_RESULT_SUCCESS,
        states |-> [reg EXCEPT ![connection_id] = state]]

\* imc_agent_t.get_state: FALSE if the identifier has no record
get_state(reg, connection_id) == reg[connection_id].present

\* imc_agent_t.change_state: fails if the identifier has no record; else the
\* record takes the new lifecycle state. On a state other than handshake the
\* evaluation result may be updated (to upd); the handshake state keeps the
\* result a prior round has set.
change_state(reg, connection_id, new_state, upd) ==
  IF ~reg[connection_id].present
  THEN [result |-> TNC_RESULT_FATAL, states |-> reg]
  ELSE [result |-> TNC_RESULT_SUCCESS,
        states |-> [reg EXCEPT ![connection_id] =
                      [present |-> TRUE, state |-> new_state,
                       result |-> IF new_state = TNC_CONNECTION_STATE_HANDSHAKE
                                  THEN @.result ELSE upd]]]

\* imc_agent_t.delete_state: fails if the identifier has no record
delete_state(reg, connection_id) ==
  IF ~reg[connection_id].present
  THEN [result |-> TNC_RESULT_FATAL, states |-> reg]
  ELSE [result |-> TNC_RESULT_SUCCESS,
        states |-> [reg EXCEPT ![connection_id] = NoState]]

\* set_result that writes the evaluation result of every record
set_result_AllRecords(reg, connection_id, result) ==
  [d \in ConnIds |->
     IF reg[d].present THEN [reg[d] EXCEPT !.result = result] ELSE reg[d]]

\* imc_state_t.set_result on the record of connection_id
set_result(reg, connection_id, result) ==
  [reg EXCEPT ![connection_id].result = result]

(***************************************************************************)
(* What an entry point returns and does: its result code, the globals and  *)
(* the registry after it, the messages it sent (sends), the Measurement    *)
(* Provider calls it made (calls) and its subsystem calls (events).        *)
(***************************************************************************)
Ret(result) ==
  [imc_android |-> imc_android, agents |-> agents, libpts |-> libpts,
   states |-> states, result |-> result,
   sends |-> <<>>, calls |-> <<>>, events |-> <<>>]

\* TNC_IMC_Initialize without its already-initialized check
TNC_IMC_Initialize_NoGuard(min_version, max_version, agent_ok) ==
  IF ~agent_ok
  THEN [Ret(TNC_RESULT_FATAL) EXCEPT !.imc_android = NULL,
                                     !.events = <<"imc_agent_create">>]
  ELSE [Ret(IF min_version > TNC_IFIMC_VERSION_1
               \/ max_version < TNC_IFIMC_VERSION_1
            THEN TNC_RESULT_NO_COMMON_VERSION
            ELSE TNC_RESULT_SUCCESS)
        EXCEPT !.imc_android = AGENT,
               !.agents = agents + 1,
               !.states = EmptyRegistry,
               !.libpts = libpts + 1,
               !.events = <<"imc_agent_create", "libpts_init">>]

\* TNC_IMC_Initialize that initializes the measurement subsystem before it
\* creates the agent
TNC_IMC_Initialize_PtsFirst(min_version, max_version, agent_ok) ==
  IF imc_android # NULL
  THEN Ret(TNC_RESULT_ALREADY_INITIALIZED)
  ELSE IF ~agent_ok
  THEN [Ret(TNC_RESULT_FATAL) EXCEPT
          !.libpts = libpts + 1,
          !.events = <<"libpts_init", "imc_agent_create">>]
  ELSE [Ret(IF min_version > TNC_IFIMC_VERSION_1
               \/ max_version < TNC_IFIMC_VERSION_1
            THEN TNC_RESULT_NO_COMMON_VERSION
            ELSE TNC_RESULT_SUCCESS)
        EXCEPT !.imc_android = AGENT,
               !.agents = agents + 1,
               !.states = EmptyRegistry,
               !.libpts = libpts + 1,
               !.events = <<"libpts_init", "imc_agent_create">>]

(***************************************************************************)
(* TNC_IMC_Initialize. agent_ok: imc_agent_create returned an agent.       *)
(***************************************************************************)
TNC_IMC_Initialize(min_version, max_version, agent_ok) ==
  IF imc_android # NULL
  THEN Ret(TNC_RESULT_ALREADY_INITIALIZED)
  ELSE IF ~agent_ok
  THEN [Ret(TNC_RESULT_FATAL) EXCEPT !.events = <<"imc_agent_create">>]
  ELSE [Ret(IF min_version > TNC_IFIMC_VERSION_1
               \/ max_version < TNC_IFIMC_VERSION_1
            THEN TNC_RESULT_NO_COMMON_VERSION
            ELSE TNC_RESULT_SUCCESS)
        EXCEPT !.imc_android = AGENT,
               !.agents = agents + 1,
               !.states = EmptyRegistry,
               !.libpts = libpts + 1,
               !.events = <<"imc_agent_create", "libpts_init">>]

\* TNC_IMC_NotifyConnectionChange whose delete case falls through to the
\* default branch
TNC_IMC_NotifyConnectionChange_DeleteAsChange(connection_id, new_state, upd) ==
  IF imc_android = NULL
  THEN Ret(TNC_RESULT_NOT_INITIALIZED)
  ELSE IF new_state = TNC_CONNECTION_STATE_CREATE
  THEN LET r == create_state(states, connection_id,
                             imc_android_state_create(connection_id))
       IN  [Ret(r.result) EXCEPT !.states = r.states]
  ELSE IF new_state = TNC_CONNECTION_STATE_HANDSHAKE
  THEN LET r == change_state(states, connection_id, new_state, upd)
       IN  IF r.result # TNC_RESULT_SUCCESS
           THEN [Ret(TNC_RESULT_FATAL) EXCEPT !.states = r.states]
           ELSE [Ret(TNC_RESULT_SUCCESS) EXCEPT !.states =
                   set_result(r.states, connection_id,
                              TNC_IMV_EVALUATION_RESULT_DONT_KNOW)]
  ELSE LET r == change_state(states, connection_id, new_state, upd)
       IN  [Ret(r.result) EXCEPT !.states = r.states]

\* TNC_IMC_NotifyConnectionChange whose handshake case does not seed the
\* evaluation result
TNC_IMC_NotifyConnectionChange_NoSeed(connection_id, new_state, upd) ==
  IF imc_android = NULL
  THEN Ret(TNC_RESULT_NOT_INITIALIZED)
  ELSE IF new_state = TNC_CONNECTION_STATE_CREATE
  THEN LET r == create_state(states, connection_id,
                             imc_android_state_create(connection_id))
       IN  [Ret(r.result) EXCEPT !.states = r.states]
  ELSE IF new_state = TNC_CONNECTION_STATE_HANDSHAKE
  THEN LET r == change_state(states, connection_id, new_state, upd)
       IN  IF r.result # TNC_RESULT_SUCCESS
           THEN [Ret(TNC_RESULT_FATAL) EXCEPT !.states = r.states]
           ELSE [Ret(TNC_RESULT_SUCCESS) EXCEPT !.states = r.states]
  ELSE IF new_state = TNC_CONNECTION_STATE_DELETE
  THEN LET r == delete_state(states, connection_id)
       IN  [Ret(r.result) EXCEPT !.states = r.states]
  ELSE LET r == change_state(states, connection_id, new_state, upd)
       IN  [Ret(r.result) EXCEPT !.states = r.states]

(***************************************************************************)
(* TNC_IMC_NotifyConnectionChange. upd: the evaluation result the agent    *)
(* may record on a state change of the default branch.                     *)
(***************************************************************************)
TNC_IMC_NotifyConnectionChange(connection_id, new_state, upd) ==
  IF imc_android = NULL
  THEN Ret(TNC_RESULT_NOT_INITIALIZED)
  ELSE IF new_state = TNC_CONNECTION_STATE_CREATE
  THEN LET r == create_state(states, connection_id,
                             imc_android_state_create(connection_id))
       IN  [Ret(r.result) EXCEPT !.states = r.states]
  ELSE IF new_state = TNC_CONNECTION_STATE_HANDSHAKE
  THEN LET r == change_state(states, connection_id, new_state, upd)
       IN  IF r.result # TNC_RESULT_SUCCESS
           THEN [Ret(TNC_RESULT_FATAL) EXCEPT !.states = r.states]
           ELSE [Ret(TNC_RESULT_SUCCESS) EXCEPT !.states =
                   set_result(r.states, connection_id,
                              TNC_IMV_EVALUATION_RESULT_DONT_KNOW)]
  ELSE IF new_state = TNC_CONNECTION_STATE_DELETE
  THEN LET r == delete_state(states, connection_id)
       IN  [Ret(r.result) EXCEPT !.states = r.states]
  ELSE LET r == change_state(states, connection_id, new_state, upd)
       IN  [Ret(r.result) EXCEPT !.states = r.states]

(***************************************************************************)
(* Measurement Dispatcher: get_measurement and add_measurement.            *)
(***************************************************************************)
\* the optional args of get_measurement: no enumerator, or one over names
NoArgs == [present |-> FALSE, names |-> <<>>]
Args(names) == [present |-> TRUE, names |-> names]

\* What the foreign runtime answers during one get_measurement call:
\* jargs: string_array_create built the argument array; method_id:
\* GetMethodID found getMeasurement; jmeasurement: CallObjectMethod returned
\* a byte array ("bytes") or null ("null"); exception: a Java exception is
\* pending after the call; elements: GetByteArrayElements gave a pointer.
JvmOk ==
  [jargs |-> TRUE, method_id |-> TRUE, jmeasurement |-> "bytes",
   exception |-> FALSE, elements |-> TRUE]
JvmReplies ==
  { JvmOk,
    [JvmOk EXCEPT !.jmeasurement = "null"],
    [JvmOk EXCEPT !.exception = TRUE],
    [JvmOk EXCEPT !.method_id = FALSE],
    [JvmOk EXCEPT !.elements = FALSE],
    [JvmOk EXCEPT !.jargs = FALSE] }

\* imcv_pa_tnc_attributes->create: the payload wrapped as an attribute of
\* the requested vendor and type
pa_tnc_attr_create(vendor_id, type, data) ==
  [vendor_id |-> vendor_id, type |-> type, data |-> data]

\* get_measurement: <<attr>>, or <<>> for the NULL it returns when no
\* measurement is available or an error occurred
get_measurement(attr_type, args, jvm) ==
  IF args.present /\ ~jvm.jargs THEN <<>>
  ELSE IF ~jvm.method_id THEN <<>>
  ELSE IF jvm.jmeasurement = "null" \/ jvm.exception THEN <<>>
  ELSE IF ~jvm.elements THEN <<>>
  ELSE <<pa_tnc_attr_create(attr_type.vendor_id, attr_type.type,
                            jvm.jmeasurement)>>

\* An outbound message under construction: attrs are its attributes in
\* order, calls the Measurement Provider calls made for it so far (each with
\* the foreign runtime's answer), jvm the answers to the calls still to come.
imc_msg_create(jvm) == [attrs |-> <<>>, calls |-> <<>>, jvm |-> jvm]

\* add_measurement: one get_measurement call; its attribute, if any, is
\* appended to the message, else only a diagnostic is logged
add_measurement(attr_type, msg, args) ==
  LET attr == get_measurement(attr_type, args, Head(msg.jvm))
  IN  [attrs |-> msg.attrs \o attr,
       calls |-> Append(msg.calls,
                        [vendor_id |-> attr_type.vendor_id,
                         type |-> attr_type.type,
                         args |-> args,
                         jvm |-> Head(msg.jvm)]),
       jvm |-> Tail(msg.jvm)]

\* the enumeration loop of handle_ietf_attribute, left at the first pair
\* without a measurement
RECURSIVE enumerate_entries_AbortOnMiss(_, _)
enumerate_entries_AbortOnMiss(entries, out_msg) ==
  IF entries = <<>> THEN out_msg
  ELSE LET m == add_measurement(Head(entries), out_msg, NoArgs)
       IN  IF Len(m.attrs) = Len(out_msg.attrs) THEN m
           ELSE enumerate_entries_AbortOnMiss(Tail(entries), m)

\* the enumeration loop of handle_ietf_attribute over the requested pairs
RECURSIVE enumerate_entries(_, _)
enumerate_entries(entries, out_msg) ==
  IF entries = <<>> THEN out_msg
  ELSE enumerate_entries(Tail(entries),
                         add_measurement(Head(entries), out_msg, NoArgs))

\* handle_ietf_attribute
handle_ietf_attribute(attr_type, attr, out_msg) ==
  IF attr_type.type = IETF_ATTR_ATTRIBUTE_REQUEST
  THEN enumerate_entries(attr.entries, out_msg)
  ELSE out_msg

\* handle_ita_attribute without its check of the attribute type
handle_ita_attribute_AnyType(attr_type, attr, out_msg) ==
  add_measurement(PenType(PEN_ITA, ITA_ATTR_SETTINGS), out_msg,
                  Args(attr.names))

\* handle_ita_attribute that asks for the settings without the names
handle_ita_attribute_NoArgs(attr_type, attr, out_msg) ==
  IF attr_type.type = ITA_ATTR_GET_SETTINGS
  THEN add_measurement(PenType(PEN_ITA, ITA_ATTR_SETTINGS), out_msg, NoArgs)
  ELSE out_msg

\* handle_ita_attribute
handle_ita_attribute(attr_type, attr, out_msg) ==
  IF attr_type.type = ITA_ATTR_GET_SETTINGS
  THEN add_measurement(PenType(PEN_ITA, ITA_ATTR_SETTINGS), out_msg,
                       Args(attr.names))
  ELSE out_msg

\* one round of the attribute loop of receive_message: the switch on the
\* vendor of attr
analyze_attribute(attr, out_msg) ==
  LET attr_type == PenType(attr.vendor_id, attr.type)
  IN  IF attr_type.vendor_id = PEN_IETF
      THEN handle_ietf_attribute(attr_type, attr, out_msg)
      ELSE IF attr_type.vendor_id = PEN_ITA
      THEN handle_ita_attribute(attr_type, attr, out_msg)
      ELSE out_msg

\* the attribute loop of receive_message
RECURSIVE analyze_attributes(_, _)
analyze_attributes(attrs, out_msg) ==
  IF attrs = <<>> THEN out_msg
  ELSE analyze_attributes(Tail(attrs), analyze_attribute(Head(attrs), out_msg))

\* imc_msg_t.send: the message handed to the transport, which answers
\* send_result
SentMsg(connection_id, out_msg, excl, reply, send_result) ==
  [connection_id |-> connection_id, excl |-> excl, reply |-> reply,
   attrs |-> out_msg.attrs, result |-> send_result]

\* TNC_IMC_BeginHandshake that puts only the measurements, not the send,
\* under the send_os_info option
TNC_IMC_BeginHandshake_AlwaysSend(connection_id, send_os_info, jvm, send_result) ==
  IF imc_android = NULL
  THEN Ret(TNC_RESULT_NOT_INITIALIZED)
  ELSE IF ~get_state(states, connection_id)
  THEN Ret(TNC_RESULT_FATAL)
  ELSE LET m0 == imc_msg_create(jvm)
           m1 == IF send_os_info
                 THEN add_measurement(
                        PenType(PEN_IETF, IETF_ATTR_PRODUCT_INFORMATION), m0, NoArgs)
                 ELSE m0
           m2 == IF send_os_info
                 THEN add_measurement(
                        PenType(PEN_IETF, IETF_ATTR_STRING_VERSION), m1, NoArgs)
                 ELSE m1
       IN  [Ret(send_result) EXCEPT
              !.sends = <<SentMsg(connection_id, m2, FALSE, FALSE, send_result)>>,
              !.calls = m2.calls]

\* TNC_IMC_BeginHandshake that gives up the second measurement when the
\* first is not available
TNC_IMC_BeginHandshake_StopOnMiss(connection_id, send_os_info, jvm, send_result) ==
  IF imc_android = NULL
  THEN Ret(TNC_RESULT_NOT_INITIALIZED)
  ELSE IF ~get_state(states, connection_id)
  THEN Ret(TNC_RESULT_FATAL)
  ELSE IF send_os_info
  THEN LET m0 == imc_msg_create(jvm)
           m1 == add_measurement(
                   PenType(PEN_IETF, IETF_ATTR_PRODUCT_INFORMATION), m0, NoArgs)
           m2 == IF m1.attrs = <<>> THEN m1
                 ELSE add_measurement(
                        PenType(PEN_IETF, IETF_ATTR_STRING_VERSION), m1, NoArgs)
       IN  [Ret(send_result) EXCEPT
              !.sends = <<SentMsg(connection_id, m2, FALSE, FALSE, send_result)>>,
              !.calls = m2.calls]
  ELSE Ret(TNC_RESULT_SUCCESS)

(***************************************************************************)
(* TNC_IMC_BeginHandshake. send_os_info: the android.imc.send_os_info      *)
(* setting; jvm: the foreign runtime's answers; send_result: the           *)
(* transport's answer to a send.                                           *)
(***************************************************************************)
TNC_IMC_BeginHandshake(connection_id, send_os_info, jvm, send_result) ==
  IF imc_android = NULL
  THEN Ret(TNC_RESULT_NOT_INITIALIZED)
  ELSE IF ~get_state(states, connection_id)
  THEN Ret(TNC_RESULT_FATAL)
  ELSE IF send_os_info
  THEN LET m0 == imc_msg_create(jvm)
           m1 == add_measurement(
                   PenType(PEN_IETF, IETF_ATTR_PRODUCT_INFORMATION), m0, NoArgs)
           m2 == add_measurement(
                   PenType(PEN_IETF, IETF_ATTR_STRING_VERSION), m1, NoArgs)
       IN  [Ret(send_result) EXCEPT
              !.sends = <<SentMsg(connection_id, m2, FALSE, FALSE, send_result)>>,
              !.calls = m2.calls]
  ELSE Ret(TNC_RESULT_SUCCESS)

\* receive_message that sends its reply also after a fatal error
receive_message_SendOnFatal(in_msg, jvm, send_result) ==
  IF in_msg.parse_result # TNC_RESULT_SUCCESS
  THEN Ret(in_msg.parse_result)
  ELSE LET out_msg == analyze_attributes(in_msg.attrs, imc_msg_create(jvm))
       IN  [Ret(IF in_msg.fatal_error THEN TNC_RESULT_FATAL ELSE send_result)
            EXCEPT !.sends = <<SentMsg(in_msg.connection_id, out_msg,
                                       TRUE, TRUE, send_result)>>,
                   !.calls = out_msg.calls]

\* receive_message that seeds the evaluation result of the connection again
\* before it answers
receive_message_ReseedsResult(in_msg, jvm, send_result) ==
  IF in_msg.parse_result # TNC_RESULT_SUCCESS
  THEN Ret(in_msg.parse_result)
  ELSE LET out_msg == analyze_attributes(in_msg.attrs, imc_msg_create(jvm))
           seeded == set_result(states, in_msg.connection_id,
                                TNC_IMV_EVALUATION_RESULT_DONT_KNOW)
       IN  IF in_msg.fatal_error
           THEN [Ret(TNC_RESULT_FATAL) EXCEPT !.calls = out_msg.calls]
           ELSE [Ret(send_result) EXCEPT
                   !.states = seeded,
                   !.sends = <<SentMsg(in_msg.connection_id, out_msg,
                                       TRUE, TRUE, send_result)>>,
                   !.calls = out_msg.calls]

\* receive_message that sends its reply a second time when the transport
\* rejects it, and reports the second outcome
receive_message_RetryOnce(in_msg, jvm, send_result) ==
  IF in_msg.parse_result # TNC_RESULT_SUCCESS
  THEN Ret(in_msg.parse_result)
  ELSE LET out_msg == analyze_attributes(in_msg.attrs, imc_msg_create(jvm))
           reply == SentMsg(in_msg.connection_id, out_msg, TRUE, TRUE, send_result)
       IN  IF in_msg.fatal_error
           THEN [Ret(TNC_RESULT_FATAL) EXCEPT !.calls = out_msg.calls]
           ELSE IF send_result = TNC_RESULT_SUCCESS
           THEN [Ret(send_result) EXCEPT !.sends = <<reply>>,
                                         !.calls = out_msg.calls]
           ELSE [Ret(TNC_RESULT_SUCCESS) EXCEPT
                   !.sends = <<reply, [reply EXCEPT !.result = TNC_RESULT_SUCCESS]>>,
                   !.calls = out_msg.calls]

(***************************************************************************)
(* receive_message. in_msg: the inbound message, as what its receive()     *)
(* makes of the raw bytes: parse_result and fatal_error are what receive   *)
(* returns, attrs the attributes it parsed.                                *)
(***************************************************************************)
receive_message(in_msg, jvm, send_result) ==
  IF in_msg.parse_result # TNC_RESULT_SUCCESS
  THEN Ret(in_msg.parse_result)
  ELSE LET out_msg == analyze_attributes(in_msg.attrs, imc_msg_create(jvm))
       IN  IF in_msg.fatal_error
           THEN [Ret(TNC_RESULT_FATAL) EXCEPT !.calls = out_msg.calls]
           ELSE [Ret(send_result) EXCEPT
                   !.sends = <<SentMsg(in_msg.connection_id, out_msg,
                                       TRUE, TRUE, send_result)>>,
                   !.calls = out_msg.calls]

\* imc_msg_create_from_data / imc_msg_create_from_long_data: the inbound
\* message bound to its connection
imc_msg_create_from_data(connection_id, msg) ==
  [connection_id |-> connection_id, parse_result |-> msg.parse_result,
   fatal_error |-> msg.fatal_error, attrs |-> msg.attrs]

\* TNC_IMC_ReceiveMessage without the lookup of the connection's record
TNC_IMC_ReceiveMessage_NoLookup(connection_id, msg, jvm, send_result) ==
  IF imc_android = NULL
  THEN Ret(TNC_RESULT_NOT_INITIALIZED)
  ELSE receive_message(imc_msg_create_from_data(connection_id, msg),
                       jvm, send_result)

\* TNC_IMC_ReceiveMessage
TNC_IMC_ReceiveMessage(connection_id, msg, jvm, send_result) ==
  IF imc_android = NULL
  THEN Ret(TNC_RESULT_NOT_INITIALIZED)
  ELSE IF ~get_state(states, connection_id)
  THEN Ret(TNC_RESULT_FATAL)
  ELSE receive_message(imc_msg_create_from_data(connection_id, msg),
                       jvm, send_result)

\* TNC_IMC_ReceiveMessageLong that drops the connection's record when the
\* message does not parse
TNC_IMC_ReceiveMessageLong_DropOnError(connection_id, msg, jvm, send_result) ==
  IF imc_android = NULL
  THEN Ret(TNC_RESULT_NOT_INITIALIZED)
  ELSE IF ~get_state(states, connection_id)
  THEN Ret(TNC_RESULT_FATAL)
  ELSE IF msg.parse_result # TNC_RESULT_SUCCESS
  THEN [Ret(msg.parse_result) EXCEPT
          !.states = delete_state(states, connection_id).states]
  ELSE receive_message(imc_msg_create_from_data(connection_id, msg),
                       jvm, send_result)

\* TNC_IMC_ReceiveMessageLong
TNC_IMC_ReceiveMessageLong(connection_id, msg, jvm, send_result) ==
  IF imc_android = NULL
  THEN Ret(TNC_RESULT_NOT_INITIALIZED)
  ELSE IF ~get_state(states, connection_id)
  THEN Ret(TNC_RESULT_FATAL)
  ELSE receive_message(imc_msg_create_from_data(connection_id, msg),
                       jvm, send_result)

\* TNC_IMC_BatchEnding that looks up the record of the connection
TNC_IMC_BatchEnding_NeedsRecord(connection_id) ==
  IF imc_android = NULL
  THEN Ret(TNC_RESULT_NOT_INITIALIZED)
  ELSE IF ~get_state(states, connection_id)
  THEN Ret(TNC_RESULT_FATAL)
  ELSE Ret(TNC_RESULT_SUCCESS)

\* TNC_IMC_BatchEnding
TNC_IMC_BatchEnding(connection_id) ==
  IF imc_android = NULL
  THEN Ret(TNC_RESULT_NOT_INITIALIZED)
  ELSE Ret(TNC_RESULT_SUCCESS)

\* TNC_IMC_Terminate that leaves the imc_android pointer set
TNC_IMC_Terminate_NoReset ==
  IF imc_android = NULL
  THEN Ret(TNC_RESULT_NOT_INITIALIZED)
  ELSE [Ret(TNC_RESULT_SUCCESS) EXCEPT
          !.libpts = libpts - 1,
          !.agents = agents - 1,
          !.states = EmptyRegistry,
          !.events = <<"libpts_deinit", "imc_agent_destroy">>]

\* TNC_IMC_Terminate that destroys the agent before it deinitializes the
\* measurement subsystem
TNC_IMC_Terminate_DestroyFirst ==
  IF imc_android = NULL
  THEN Ret(TNC_RESULT_NOT_INITIALIZED)
  ELSE [Ret(TNC_RESULT_SUCCESS) EXCEPT
          !.libpts = libpts - 1,
          !.agents = agents - 1,
          !.states = EmptyRegistry,
          !.imc_android = NULL,
          !.events = <<"imc_agent_destroy", "libpts_deinit",
                       "imc_android_reset">>]

\* TNC_IMC_Terminate
TNC_IMC_Terminate ==
  IF imc_android = NULL
  THEN Ret(TNC_RESULT_NOT_INITIALIZED)
  ELSE [Ret(TNC_RESULT_SUCCESS) EXCEPT
          !.libpts = libpts - 1,
          !.agents = agents - 1,
          !.states = EmptyRegistry,
          !.imc_android = NULL,
          !.events = <<"libpts_deinit", "imc_agent_destroy",
                       "imc_android_reset">>]

\* TNC_IMC_ProvideBindFunction. bind_result: what the agent's
\* bind_functions returns
TNC_IMC_ProvideBindFunction(bind_result) ==
  IF imc_android = NULL
  THEN Ret(TNC_RESULT_NOT_INITIALIZED)
  ELSE Ret(bind_result)

(***************************************************************************)
(* Inbound messages.                                                       *)
(***************************************************************************)
\* an inbound attribute: entries is the pair list of an "attribute request",
\* names the name list of a "get settings", both empty for any other type
Attr(vendor_id, type, entries, names) ==
  [vendor_id |-> vendor_id, type |-> type, entries |-> entries, names |-> names]
AttrRequest(entries) ==
  Attr(PEN_IETF, IETF_ATTR_ATTRIBUTE_REQUEST, entries, <<>>)
GetSettings(names) ==
  Attr(PEN_ITA, ITA_ATTR_GET_SETTINGS, <<>>, names)

\* the pairs an attribute request may list: two IETF types and one type of
\* a vendor the collector knows nothing of
RequestPairs ==
  { PenType(PEN_IETF, IETF_ATTR_PRODUCT_INFORMATION),
    PenType(PEN_IETF, IETF_ATTR_STRING_VERSION),
    PenType(21911, 9999) }
SettingNames == {"android_id", "install_non_market_apps"}

\* attributes the dispatch has no handler for: an IETF type that is no
\* attribute request, ITA and IETF types carrying the number the other
\* namespace gives to its request type, and a type of an unknown vendor
OtherAttrs ==
  { Attr(PEN_IETF, IETF_ATTR_PRODUCT_INFORMATION, <<>>, <<>>),
    Attr(PEN_IETF, ITA_ATTR_GET_SETTINGS, <<>>, <<>>),
    Attr(PEN_ITA, IETF_ATTR_ATTRIBUTE_REQUEST, <<>>, <<>>),
    Attr(21911, IETF_ATTR_ATTRIBUTE_REQUEST, <<>>, <<>>) }
Ignored(attr) ==
  \/ attr.vendor_id \notin {PEN_IETF, PEN_ITA}
  \/ attr.vendor_id = PEN_IETF /\ attr.type # IETF_ATTR_ATTRIBUTE_REQUEST
  \/ attr.vendor_id = PEN_ITA /\ attr.type # ITA_ATTR_GET_SETTINGS

\* the attributes of k items: the attribute and the k-1 things it lists
AttrsOfLen(k) ==
  (IF k = 1 THEN OtherAttrs ELSE {})
    \cup { AttrRequest(e) : e \in [1..(k-1) -> RequestPairs] }
    \cup { GetSettings(n) : n \in [1..(k-1) -> SettingNames] }

\* the attribute sequences of at most n items
RECURSIVE AttrSeqs(_)
AttrSeqs(n) ==
  {<<>>} \cup
  UNION { UNION { { <<a>> \o m : m \in AttrSeqs(n - k) } : a \in AttrsOfLen(k) }
          : k \in 1..n }

\* what receive() makes of raw bytes: the attributes of a well-formed
\* message, with the fatal_error flag it reports; or a parse failure
WellFormed(attrs, fatal_error) ==
  [parse_result |-> TNC_RESULT_SUCCESS, fatal_error |-> fatal_error,
   attrs |-> attrs]
Malformed ==
  [parse_result |-> TNC_RESULT_FATAL, fatal_error |-> TRUE, attrs |-> <<>>]
NoMsg == [parse_result |-> "", fatal_error |-> FALSE, attrs |-> <<>>]

\* the messages the host delivers in Spec
HostMsgs ==
  { Malformed,
    WellFormed(<<AttrRequest(<<PenType(PEN_IETF, IETF_ATTR_PRODUCT_INFORMATION)>>)>>, TRUE),
    WellFormed(<<>>, FALSE),
    WellFormed(<<AttrRequest(<<PenType(PEN_IETF, IETF_ATTR_STRING_VERSION)>>)>>, FALSE),
    WellFormed(<<Attr(21911, IETF_ATTR_ATTRIBUTE_REQUEST, <<>>, <<>>),
                 GetSettings(<<"android_id">>)>>, FALSE) }
\* the messages SpecRecv explores
RecvMsgs ==
  {Malformed} \cup { WellFormed(a, f) : a \in AttrSeqs(MaxLen), f \in BOOLEAN }

\* the number of Measurement Provider calls the dispatch of attrs makes
RECURSIVE Items(_)
Items(attrs) ==
  IF attrs = <<>> THEN 0
  ELSE 1 + Len(Head(attrs).entries) + Len(Head(attrs).names) + Items(Tail(attrs))
NCalls(attrs) ==
  Len(analyze_attributes(attrs,
        imc_msg_create([i \in 1..Items(attrs) |-> JvmOk])).calls)
\* the answers of the foreign runtime to n calls, each one of replies
JvmAnswers(n, replies) == [1..n -> replies]
\* the answers Spec draws from: a measurement, or none
HostReplies == {JvmOk, [JvmOk EXCEPT !.jmeasurement = "null"]}
\* the answers of the transport to a send
SendResults == {TNC_RESULT_SUCCESS, TNC_RESULT_FATAL}

(***************************************************************************)
(* The state machine.                                                      *)
(***************************************************************************)
NoInput ==
  [min_version |-> 0, max_version |-> 0, new_state |-> "",
   send_os_info |-> FALSE, msg |-> NoMsg]
Globals ==
  [imc_android |-> imc_android, agents |-> agents, libpts |-> libpts,
   states |-> states]
NoCall ==
  [op |-> "", connection_id |-> 0, in |-> NoInput, pre |-> Globals,
   result |-> "", sends |-> <<>>, calls |-> <<>>, events |-> <<>>]

\* no reference held, no function run
NoJni ==
  [android_imc |-> FALSE, android_imc_cls |-> FALSE, op |-> "",
   attr_type |-> PenType(0, 0), args |-> NoArgs, jargs |-> <<>>,
   returned |-> <<>>, trace |-> <<>>]

\* the frame of a thread that is in no entry point
IdleFrame ==
  [pc |-> "idle", op |-> "", in |-> NoInput, out_msg |-> imc_msg_create(<<>>),
   result |-> "", sends |-> <<>>, calls |-> <<>>]
\* a thread in no call: frame is its frame under the interleaving, solo its
\* frame and rec its connection's record when its calls run alone
IdleThread == [frame |-> IdleFrame, solo |-> IdleFrame, rec |-> NoState]

Init ==
  /\ imc_android = NULL
  /\ agents = 0
  /\ libpts = 0
  /\ states = EmptyRegistry
  /\ last = NoCall
  /\ framed = FALSE
  /\ threads = [c \in ConnIds |-> IdleThread]
  /\ jni = NoJni

\* the framing error on record after entry point op has run: receive() of a
\* message for the record of connection 1 has failed; forgotten with the
\* record
FramingErrors(op, connection_id, in, out) ==
  /\ out.states[1].present
  /\ \/ framed
     \/ /\ connection_id = 1
        /\ op \in ReceiveOps
        /\ imc_android # NULL
        /\ get_state(states, 1)
        /\ in.msg.parse_result # TNC_RESULT_SUCCESS

\* the host calls entry point op; out is what the entry point returns and does
Call(op, connection_id, in, out) ==
  /\ imc_android' = out.imc_android
  /\ agents' = out.agents
  /\ libpts' = out.libpts
  /\ states' = out.states
  /\ last' = [op |-> op, connection_id |-> connection_id, in |-> in,
              pre |-> Globals, result |-> out.result, sends |-> out.sends,
              calls |-> out.calls, events |-> out.events]
  /\ framed' = FramingErrors(op, connection_id, in, out)
  /\ UNCHANGED <<threads, jni>>

Initialize(min_version, max_version, agent_ok) ==
  Call("Initialize", 0,
       [NoInput EXCEPT !.min_version = min_version, !.max_version = max_version],
       TNC_IMC_Initialize(min_version, max_version, agent_ok))

NotifyConnectionChange(connection_id, new_state, upd) ==
  Call("NotifyConnectionChange", connection_id,
       [NoInput EXCEPT !.new_state = new_state],
       TNC_IMC_NotifyConnectionChange(connection_id, new_state, upd))

BeginHandshake(connection_id, send_os_info, jvm, send_result) ==
  Call("BeginHandshake", connection_id,
       [NoInput EXCEPT !.send_os_info = send_os_info],
       TNC_IMC_BeginHandshake(connection_id, send_os_info, jvm, send_result))

ReceiveMessage(connection_id, msg, jvm, send_result) ==
  Call("ReceiveMessage", connection_id, [NoInput EXCEPT !.msg = msg],
       TNC_IMC_ReceiveMessage(connection_id, msg, jvm, send_result))

ReceiveMessageLong(connection_id, msg, jvm, send_result) ==
  Call("ReceiveMessageLong", connection_id, [NoInput EXCEPT !.msg = msg],
       TNC_IMC_ReceiveMessageLong(connection_id, msg, jvm, send_result))

BatchEnding(connection_id) ==
  Call("BatchEnding", connection_id, NoInput, TNC_IMC_BatchEnding(connection_id))

Terminate ==
  Call("Terminate", 0, NoInput, TNC_IMC_Terminate)

ProvideBindFunction(bind_result) ==
  Call("ProvideBindFunction", 0, NoInput, TNC_IMC_ProvideBindFunction(bind_result))

Next ==
  \/ \E min_version \in Versions, max_version \in Versions, agent_ok \in BOOLEAN :
       Initialize(min_version, max_version, agent_ok)
  \/ \E c \in ConnIds, new_state \in NewStates, upd \in EvalResults :
       NotifyConnectionChange(c, new_state, upd)
  \/ \E c \in ConnIds, jvm \in JvmAnswers(2, HostReplies), r \in SendResults :
       BeginHandshake(c, TRUE, jvm, r)
  \/ \E c \in ConnIds :
       BeginHandshake(c, FALSE, <<>>, TNC_RESULT_SUCCESS)
  \/ \E c \in ConnIds, msg \in HostMsgs :
       \E jvm \in JvmAnswers(NCalls(msg.attrs), HostReplies), r \in SendResults :
         ReceiveMessage(c, msg, jvm, r)
  \/ \E c \in ConnIds, msg \in HostMsgs :
       \E jvm \in JvmAnswers(NCalls(msg.attrs), HostReplies), r \in SendResults :
         ReceiveMessageLong(c, msg, jvm, r)
  \/ \E c \in ConnIds : BatchEnding(c)
  \/ Terminate
  \/ \E bind_result \in SendResults : ProvideBindFunction(bind_result)

Spec == Init /\ [][Next]_vars

(***************************************************************************)
(* SpecRecv: one ReceiveMessage or ReceiveMessageLong call, with any       *)
(* message of RecvMsgs, on an initialized collector whose connection 1 is  *)
(* in its handshake and whose other connections have no record.            *)
(***************************************************************************)
InitRecv ==
  /\ imc_android = AGENT
  /\ agents = 1
  /\ libpts = 1
  /\ states = [c \in ConnIds |->
                 IF c = 1
                 THEN [present |-> TRUE,
                       state |-> TNC_CONNECTION_STATE_HANDSHAKE,
                       result |-> TNC_IMV_EVALUATION_RESULT_DONT_KNOW]
                 ELSE NoState]
  /\ last = NoCall
  /\ framed = FALSE
  /\ threads = [c \in ConnIds |-> IdleThread]
  /\ jni = NoJni

NextRecv ==
  /\ last.op = ""
  /\ \/ \E c \in ConnIds, msg \in RecvMsgs :
          \E jvm \in JvmAnswers(NCalls(msg.attrs), JvmReplies), r \in SendResults :
            ReceiveMessage(c, msg, jvm, r)
     \/ \E c \in ConnIds, msg \in RecvMsgs :
          \E jvm \in JvmAnswers(NCalls(msg.attrs), JvmReplies), r \in SendResults :
            ReceiveMessageLong(c, msg, jvm, r)

SpecRecv == InitRecv /\ [][NextRecv]_vars

(***************************************************************************)
(* SpecPar: the host calls the entry points of distinct connections from   *)
(* concurrent threads, the calls of one connection one after the other. An *)
(* entry point runs in steps, each atomic: its entry up to its call of the *)
(* registry, the seed of the evaluation result, the dispatch of the        *)
(* measurements, and the send. Each thread carries, next to its frame, the *)
(* frame and the record it has when the calls of its connection run alone  *)
(* on a registry without other records.                                    *)
(***************************************************************************)
\* the connections with a concurrent caller
ParConns == {1, MaxConn}
\* the entry points a thread calls, and their inputs
ParCalls ==
  { [op |-> "NotifyConnectionChange", in |-> [NoInput EXCEPT !.new_state = n]]
      : n \in NewStates } \cup
  { [op |-> "BeginHandshake", in |-> [NoInput EXCEPT !.send_os_info = b]]
      : b \in BOOLEAN } \cup
  { [op |-> o, in |-> [NoInput EXCEPT !.msg = m]]
      : o \in ReceiveOps, m \in HostMsgs } \cup
  { [op |-> "BatchEnding", in |-> NoInput] }

\* the registry of a collector that serves connection c alone
SoloRegistry(c, rec) == [d \in ConnIds |-> IF d = c THEN rec ELSE NoState]

\* a frame at its return, with the result
Return(f, result) == [f EXCEPT !.pc = "return", !.result = result]

\* Entry of an entry point, up to and with its call of the registry.
EnterCall(reg, f, c, upd) ==
  IF imc_android = NULL
  THEN [reg |-> reg, frame |-> Return(f, TNC_RESULT_NOT_INITIALIZED)]
  ELSE IF f.op = "NotifyConnectionChange"
  THEN IF f.in.new_state = TNC_CONNECTION_STATE_CREATE
       THEN LET r == create_state(reg, c, imc_android_state_create(c))
            IN  [reg |-> r.states, frame |-> Return(f, r.result)]
       ELSE IF f.in.new_state = TNC_CONNECTION_STATE_HANDSHAKE
       THEN LET r == change_state(reg, c, f.in.new_state, upd)
            IN  IF r.result # TNC_RESULT_SUCCESS
                THEN [reg |-> r.states, frame |-> Return(f, TNC_RESULT_FATAL)]
                ELSE [reg |-> r.states, frame |-> [f EXCEPT !.pc = "set_result"]]
       ELSE IF f.in.new_state = TNC_CONNECTION_STATE_DELETE
       THEN LET r == delete_state(reg, c)
            IN  [reg |-> r.states, frame |-> Return(f, r.result)]
       ELSE LET r == change_state(reg, c, f.in.new_state, upd)
            IN  [reg |-> r.states, frame |-> Return(f, r.result)]
  ELSE IF f.op = "BatchEnding"
  THEN [reg |-> reg, frame |-> Return(f, TNC_RESULT_SUCCESS)]
  ELSE IF ~get_state(reg, c)
  THEN [reg |-> reg, frame |-> Return(f, TNC_RESULT_FATAL)]
  ELSE [reg |-> reg, frame |-> [f EXCEPT !.pc = "dispatch"]]

\* The seed of the evaluation result after the change to the handshake state.
SeedResult(reg, f, c) ==
  [reg |-> set_result(reg, c, TNC_IMV_EVALUATION_RESULT_DONT_KNOW),
   frame |-> Return(f, TNC_RESULT_SUCCESS)]

\* The outbound message is built and the measurements are added to it.
Dispatch(f, c, jvm) ==
  IF f.op = "BeginHandshake"
  THEN IF f.in.send_os_info
       THEN LET m0 == imc_msg_create(jvm)
                m1 == add_measurement(
                        PenType(PEN_IETF, IETF_ATTR_PRODUCT_INFORMATION), m0, NoArgs)
                m2 == add_measurement(
                        PenType(PEN_IETF, IETF_ATTR_STRING_VERSION), m1, NoArgs)
            IN  [f EXCEPT !.pc = "send", !.out_msg = m2, !.calls = m2.calls]
       ELSE Return(f, TNC_RESULT_SUCCESS)
  ELSE LET in_msg == imc_msg_create_from_data(c, f.in.msg)
       IN  IF in_msg.parse_result # TNC_RESULT_SUCCESS
           THEN Return(f, in_msg.parse_result)
           ELSE LET out_msg == analyze_attributes(in_msg.attrs, imc_msg_create(jvm))
                IN  IF in_msg.fatal_error
                    THEN Return([f EXCEPT !.calls = out_msg.calls], TNC_RESULT_FATAL)
                    ELSE [f EXCEPT !.pc = "send", !.out_msg = out_msg,
                                   !.calls = out_msg.calls]

\* The send of the outbound message: exclusive and a reply for a received
\* message, neither for a handshake.
Send(f, c, send_result) ==
  Return([f EXCEPT !.sends =
            <<SentMsg(c, f.out_msg, f.op \in ReceiveOps, f.op \in ReceiveOps,
                      send_result)>>,
          !.out_msg = imc_msg_create(<<>>)],
         send_result)

InitPar ==
  /\ imc_android = AGENT
  /\ agents = 1
  /\ libpts = 1
  /\ states = EmptyRegistry
  /\ last = NoCall
  /\ framed = FALSE
  /\ threads = [c \in ConnIds |-> IdleThread]
  /\ jni = NoJni

\* the thread of c takes a step that leaves reg as the registry and a as its
\* frame, and that alone leaves b as its frame and rec as its record
ParStep(c, reg, a, b, rec) ==
  /\ states' = reg
  /\ threads' = [threads EXCEPT ![c] = [frame |-> a, solo |-> b, rec |-> rec]]
  /\ UNCHANGED <<imc_android, agents, libpts, last, framed, jni>>

ParCall(c, call) ==
  /\ threads[c].frame.pc = "idle"
  /\ LET f == [IdleFrame EXCEPT !.pc = "entry", !.op = call.op, !.in = call.in]
     IN  ParStep(c, states, f, f, threads[c].rec)

ParEnter(c, upd) ==
  /\ threads[c].frame.pc = "entry"
  /\ LET a == EnterCall(states, threads[c].frame, c, upd)
         b == EnterCall(SoloRegistry(c, threads[c].rec), threads[c].solo, c, upd)
     IN  ParStep(c, a.reg, a.frame, b.frame, b.reg[c])

ParSeedResult(c) ==
  /\ threads[c].frame.pc = "set_result"
  /\ LET a == SeedResult(states, threads[c].frame, c)
         b == SeedResult(SoloRegistry(c, threads[c].rec), threads[c].solo, c)
     IN  ParStep(c, a.reg, a.frame, b.frame, b.reg[c])

ParDispatch(c, jvm) ==
  /\ threads[c].frame.pc = "dispatch"
  /\ ParStep(c, states, Dispatch(threads[c].frame, c, jvm),
             Dispatch(threads[c].solo, c, jvm), threads[c].rec)

ParSend(c, send_result) ==
  /\ threads[c].frame.pc = "send"
  /\ ParStep(c, states, Send(threads[c].frame, c, send_result),
             Send(threads[c].solo, c, send_result), threads[c].rec)

ParReturn(c) ==
  /\ threads[c].frame.pc = "return"
  /\ ParStep(c, states, IdleFrame, IdleFrame, threads[c].rec)

\* the number of measurements the call of frame f asks for
ParNCalls(f) ==
  IF f.op = "BeginHandshake" THEN IF f.in.send_os_info THEN 2 ELSE 0
  ELSE NCalls(f.in.msg.attrs)

NextPar ==
  \/ \E c \in ParConns, call \in ParCalls : ParCall(c, call)
  \/ \E c \in ParConns, upd \in EvalResults : ParEnter(c, upd)
  \/ \E c \in ParConns : ParSeedResult(c)
  \/ \E c \in ParConns :
       \E jvm \in JvmAnswers(ParNCalls(threads[c].frame), HostReplies) :
         ParDispatch(c, jvm)
  \/ \E c \in ParConns, r \in SendResults : ParSend(c, r)
  \/ \E c \in ParConns : ParReturn(c)

SpecPar == InitPar /\ [][NextPar]_vars

(***************************************************************************)
(* SpecJni: the functions that attach the calling thread to the foreign    *)
(* runtime, imc_android_register and get_measurement, with the calls they  *)
(* make on the way: "attach" and "detach" for androidjni_attach_thread and *)
(* androidjni_detach_thread, the name of the runtime function for a use of *)
(* the env handle.                                                         *)
(***************************************************************************)
\* the functions called through the env handle
EnvCalls ==
  {"FindClass", "NewGlobalRef", "GetMethodID", "NewObject", "DeleteGlobalRef",
   "NewObjectArray", "NewStringUTF", "SetObjectArrayElement",
   "CallObjectMethod", "GetByteArrayElements", "GetArrayLength",
   "ReleaseByteArrayElements", "androidjni_exception_occurred"}

\* the release of the global references at the end of imc_android_register
ReleaseRefs(j) ==
  (IF j.android_imc THEN <<"DeleteGlobalRef">> ELSE <<>>)
    \o (IF j.android_imc_cls THEN <<"DeleteGlobalRef">> ELSE <<>>)
    \o <<"detach">>

\* imc_android_register. reg: register or unregister; cls, method_id, obj:
\* FindClass, GetMethodID and NewObject gave a result; loaded: what
\* load_from_functions returns. The result is the jni state after it.
imc_android_register(reg, cls, method_id, obj, loaded) ==
  LET Out(j, success, trace) ==
        [NoJni EXCEPT !.android_imc = j.android_imc,
                      !.android_imc_cls = j.android_imc_cls,
                      !.op = "imc_android_register",
                      !.returned = <<success>>,
                      !.trace = trace]
      \* the code from the label failed on, entered with the references j
      Failed(j, trace) ==
        Out([j EXCEPT !.android_imc = FALSE, !.android_imc_cls = FALSE], FALSE,
            trace \o <<"androidjni_exception_occurred">> \o ReleaseRefs(j))
      withCls == [jni EXCEPT !.android_imc_cls = TRUE]
      withObj == [withCls EXCEPT !.android_imc = TRUE]
  IN  IF ~reg
      THEN Out([jni EXCEPT !.android_imc = FALSE, !.android_imc_cls = FALSE],
               TRUE, <<"attach">> \o ReleaseRefs(jni))
      ELSE IF ~cls
      THEN Failed(jni, <<"attach", "FindClass">>)
      ELSE IF ~method_id
      THEN Failed(withCls, <<"attach", "FindClass", "NewGlobalRef", "GetMethodID">>)
      ELSE IF ~obj
      THEN Failed(withCls, <<"attach", "FindClass", "NewGlobalRef", "GetMethodID",
                             "NewObject">>)
      ELSE IF loaded
      THEN Out(withObj, TRUE,
               <<"attach", "FindClass", "NewGlobalRef", "GetMethodID",
                 "NewObject", "NewGlobalRef", "detach", "load_from_functions">>)
      ELSE Failed(withObj,
                  <<"attach", "FindClass", "NewGlobalRef", "GetMethodID",
                    "NewObject", "NewGlobalRef", "detach", "load_from_functions">>)

\* string_array_create: the names as a Java String array, in their order,
\* or no array when the runtime gives none
RECURSIVE StringElements(_)
StringElements(names) ==
  IF names = <<>> THEN <<>>
  ELSE <<"NewStringUTF", "SetObjectArrayElement">> \o StringElements(Tail(names))
string_array_create(names, jarray) ==
  IF jarray
  THEN [jarray |-> [i \in 1..Len(names) |-> names[i]],
        trace |-> <<"FindClass", "NewObjectArray">> \o StringElements(names)]
  ELSE [jarray |-> <<>>,
        trace |-> <<"FindClass", "NewObjectArray", "androidjni_exception_occurred">>]

\* get_measurement, with its calls on the foreign runtime
get_measurement_env(attr_type, args, jvm) ==
  LET Out(jargs, trace) ==
        [jni EXCEPT !.op = "get_measurement", !.attr_type = attr_type,
                    !.args = args, !.jargs = jargs,
                    !.returned = get_measurement(attr_type, args, jvm),
                    !.trace = trace]
      Failed(jargs, trace) ==
        Out(jargs, trace \o <<"androidjni_exception_occurred", "detach">>)
      array == IF args.present THEN string_array_create(args.names, jvm.jargs)
               ELSE [jarray |-> <<>>, trace |-> <<>>]
      t1 == <<"attach">> \o array.trace
      t2 == t1 \o <<"GetMethodID">>
      t3 == t2 \o <<"CallObjectMethod">>
      t4 == t3 \o <<"androidjni_exception_occurred">>
      t5 == t4 \o <<"GetByteArrayElements", "GetArrayLength">>
  IN  IF args.present /\ ~jvm.jargs THEN Failed(<<>>, t1)
      ELSE IF ~jvm.method_id THEN Failed(array.jarray, t2)
      ELSE IF jvm.jmeasurement = "null" THEN Failed(array.jarray, t3)
      ELSE IF jvm.exception THEN Failed(array.jarray, t4)
      ELSE IF ~jvm.elements THEN Failed(array.jarray, t5)
      ELSE Out(array.jarray,
               t5 \o <<"pa_tnc_attr_create", "ReleaseByteArrayElements", "detach">>)

\* the measurement requests of SpecJni
JniTypes == RequestPairs \cup {PenType(PEN_ITA, ITA_ATTR_SETTINGS)}
JniArgs ==
  {NoArgs} \cup { Args(n) : n \in UNION { [1..k -> SettingNames] : k \in 1..2 } }

InitJni ==
  /\ imc_android = NULL
  /\ agents = 0
  /\ libpts = 0
  /\ states = EmptyRegistry
  /\ last = NoCall
  /\ framed = FALSE
  /\ threads = [c \in ConnIds |-> IdleThread]
  /\ jni = NoJni

Register(reg, cls, method_id, obj, loaded) ==
  /\ jni' = imc_android_register(reg, cls, method_id, obj, loaded)
  /\ UNCHANGED <<imc_android, agents, libpts, states, last, framed, threads>>

\* a measurement is asked for while the AndroidImc object is registered
GetMeasurement(attr_type, args, jvm) ==
  /\ jni.android_imc
  /\ jni' = get_measurement_env(attr_type, args, jvm)
  /\ UNCHANGED <<imc_android, agents, libpts, states, last, framed, threads>>

NextJni ==
  \/ \E reg \in BOOLEAN, cls \in BOOLEAN, method_id \in BOOLEAN,
        obj \in BOOLEAN, loaded \in BOOLEAN :
       Register(reg, cls, method_id, obj, loaded)
  \/ \E attr_type \in JniTypes, args \in JniArgs, jvm \in JvmReplies :
       GetMeasurement(attr_type, args, jvm)

SpecJni == InitJni /\ [][NextJni]_vars

(***************************************************************************)
(* Claims. Each is stated over the last call: its inputs (last.in), the    *)
(* globals before it (last.pre), the globals after it (the state) and what *)
(* it returned and did (last.result, last.sends, last.calls).              *)
(***************************************************************************)
Initialized(g) == g.imc_android # NULL
HasRecord(g, c) == g.states[c].present
\* the foreign runtime delivered a measurement to a get_measurement call
Delivered(call) ==
  /\ call.args.present => call.jvm.jargs
  /\ call.jvm.method_id
  /\ call.jvm.jmeasurement = "bytes"
  /\ ~call.jvm.exception
  /\ call.jvm.elements
\* the attributes a reply holds after the calls: one per delivered
\* measurement, typed as the call, in call order
RECURSIVE MeasuredAttrs(_)
MeasuredAttrs(calls) ==
  IF calls = <<>> THEN <<>>
  ELSE (IF Delivered(Head(calls))
        THEN <<[vendor_id |-> Head(calls).vendor_id, type |-> Head(calls).type,
                data |-> "bytes"]>>
        ELSE <<>>) \o MeasuredAttrs(Tail(calls))
\* what a call asked for: the type and the arguments
Asked(calls) ==
  [i \in 1..Len(calls) |->
     [vendor_id |-> calls[i].vendor_id, type |-> calls[i].type,
      args |-> calls[i].args]]

\* C1: an Initialize call on an initialized collector returns "already
\* initialized" and leaves the collector, the measurement subsystem and all
\* connection records as they were; never are two collector instances alive.
C1_InitializeTwice ==
  /\ agents <= 1
  /\ (last.op = "Initialize" /\ Initialized(last.pre)) =>
       /\ last.result = TNC_RESULT_ALREADY_INITIALIZED
       /\ Globals = last.pre
C1_Witness ==
  /\ last.op = "Initialize"
  /\ Initialized(last.pre)
  /\ \E c \in ConnIds : HasRecord(last.pre, c)

\* C2: an Initialize call that returns "no common version" allocates no
\* collector state and does not initialize the measurement subsystem: the
\* collector is still uninitialized after it.
C2_NoCommonVersionAllocatesNothing ==
  (last.op = "Initialize" /\ last.result = TNC_RESULT_NO_COMMON_VERSION) =>
     /\ imc_android = NULL
     /\ agents = last.pre.agents
     /\ libpts = last.pre.libpts

\* C3: Terminate on an uninitialized collector returns "not initialized" and
\* changes nothing; a successful Terminate leaves the collector
\* uninitialized, without agent, measurement subsystem or connection record;
\* on an uninitialized collector every entry point but Initialize returns
\* "not initialized" and changes nothing, and Initialize is taken as a first
\* call (it does not return "already initialized").
C3_TerminateResets ==
  /\ (last.op = "Terminate" /\ last.result = TNC_RESULT_SUCCESS) =>
       /\ Initialized(last.pre)
       /\ imc_android = NULL /\ agents = 0 /\ libpts = 0
       /\ states = EmptyRegistry
  /\ (last.op \notin {"", "Initialize"} /\ ~Initialized(last.pre)) =>
       /\ last.result = TNC_RESULT_NOT_INITIALIZED
       /\ Globals = last.pre
       /\ last.sends = <<>> /\ last.calls = <<>>
  /\ (last.op = "Initialize" /\ ~Initialized(last.pre)) =>
       last.result # TNC_RESULT_ALREADY_INITIALIZED
C3_Witness ==
  /\ last.op = "Terminate"
  /\ last.result = TNC_RESULT_SUCCESS
  /\ \E c \in ConnIds : HasRecord(last.pre, c)

\* C4: for a well-formed inbound message without fatal error that holds one
\* attribute request listing N pairs, on a connection with a record, the
\* reply holds one attribute per listed pair the provider delivered data
\* for, typed as the pair and in list order, and none for the other pairs;
\* the call returns what the send returned, success if the transport
\* accepted; with one pair unavailable the reply holds N-1 attributes.
C4_PartialFailureIsolation ==
  (/\ last.op \in ReceiveOps
   /\ Initialized(last.pre)
   /\ HasRecord(last.pre, last.connection_id)
   /\ last.in.msg.parse_result = TNC_RESULT_SUCCESS
   /\ ~last.in.msg.fatal_error
   /\ Len(last.in.msg.attrs) = 1
   /\ last.in.msg.attrs[1].vendor_id = PEN_IETF
   /\ last.in.msg.attrs[1].type = IETF_ATTR_ATTRIBUTE_REQUEST) =>
     LET entries == last.in.msg.attrs[1].entries
         N == Len(entries)
         missing == {i \in 1..Len(last.calls) : ~Delivered(last.calls[i])}
     IN  /\ Asked(last.calls) =
              [i \in 1..N |-> [vendor_id |-> entries[i].vendor_id,
                               type |-> entries[i].type, args |-> NoArgs]]
         /\ Len(last.sends) = 1
         /\ last.sends[1].attrs = MeasuredAttrs(last.calls)
         /\ Len(last.sends[1].attrs) = N - Cardinality(missing)
         /\ Cardinality(missing) = 1 => Len(last.sends[1].attrs) = N - 1
         /\ last.result = last.sends[1].result
C4_Witness ==
  /\ last.op \in ReceiveOps
  /\ last.in.msg.parse_result = TNC_RESULT_SUCCESS
  /\ Len(last.in.msg.attrs) = 1
  /\ Len(last.in.msg.attrs[1].entries) = 2
  /\ Len(last.calls) = 2
  /\ ~Delivered(last.calls[1])
  /\ Delivered(last.calls[2])
  /\ Len(last.sends) = 1
  /\ Len(last.sends[1].attrs) = 1
  /\ last.result = TNC_RESULT_SUCCESS

\* C5: a ReceiveMessage or ReceiveMessageLong call on an initialized
\* collector and a connection with a record sends exactly one message, an
\* exclusive reply on that connection, if the parse succeeded without fatal
\* error (also when the reply holds no attribute), and sends nothing
\* otherwise; after a fatal error the call returns "fatal".
C5_ReplyUnlessFatal ==
  (/\ last.op \in ReceiveOps
   /\ Initialized(last.pre)
   /\ HasRecord(last.pre, last.connection_id)) =>
     IF last.in.msg.parse_result = TNC_RESULT_SUCCESS /\ ~last.in.msg.fatal_error
     THEN /\ Len(last.sends) = 1
          /\ last.sends[1].excl
          /\ last.sends[1].reply
          /\ last.sends[1].connection_id = last.connection_id
     ELSE /\ last.sends = <<>>
          /\ last.in.msg.fatal_error => last.result = TNC_RESULT_FATAL
C5_Witness ==
  /\ last.op \in ReceiveOps
  /\ last.in.msg.parse_result = TNC_RESULT_SUCCESS
  /\ ~last.in.msg.fatal_error
  /\ Len(last.sends) = 1
  /\ last.sends[1].attrs = <<>>
  /\ last.sends[1].excl

\* C6, as stated: on an initialized collector with the send_os_info option
\* disabled, BeginHandshake returns success, sends nothing and calls no
\* measurement.
C6_DisabledIsNoOp_AsStated ==
  (/\ last.op = "BeginHandshake"
   /\ Initialized(last.pre)
   /\ ~last.in.send_os_info) =>
     /\ last.result = TNC_RESULT_SUCCESS
     /\ last.sends = <<>>
     /\ last.calls = <<>>
\* C6, amended: the same for a connection that has a state record; in any
\* case the call sends nothing, calls no measurement and changes nothing.
C6_DisabledIsNoOp ==
  (/\ last.op = "BeginHandshake"
   /\ Initialized(last.pre)
   /\ ~last.in.send_os_info) =>
     /\ HasRecord(last.pre, last.connection_id) =>
          last.result = TNC_RESULT_SUCCESS
     /\ last.sends = <<>>
     /\ last.calls = <<>>
     /\ Globals = last.pre
C6_Witness ==
  /\ last.op = "BeginHandshake"
  /\ Initialized(last.pre)
  /\ HasRecord(last.pre, last.connection_id)
  /\ ~last.in.send_os_info
  /\ last.result = TNC_RESULT_SUCCESS

\* C7: NotifyConnectionChange keeps the registry sound: create for an
\* identifier with a record fails and leaves the registry as it was; a
\* handshake, other state change or delete for an identifier without a
\* record fails and leaves the registry as it was (no record is made up);
\* delete of a record leaves the identifier without one; create for an
\* identifier without a record succeeds and gives it a fresh record.
C7_RegistryInvariant ==
  (last.op = "NotifyConnectionChange" /\ Initialized(last.pre)) =>
     LET c == last.connection_id
         had == HasRecord(last.pre, c)
     IN  IF last.in.new_state = TNC_CONNECTION_STATE_CREATE
         THEN IF had
              THEN /\ last.result # TNC_RESULT_SUCCESS
                   /\ states = last.pre.states
              ELSE /\ last.result = TNC_RESULT_SUCCESS
                   /\ states[c] =
                        [present |-> TRUE,
                         state |-> TNC_CONNECTION_STATE_CREATE,
                         result |-> TNC_IMV_EVALUATION_RESULT_DONT_KNOW]
         ELSE IF ~had
              THEN /\ last.result # TNC_RESULT_SUCCESS
                   /\ states = last.pre.states
              ELSE /\ last.result = TNC_RESULT_SUCCESS
                   /\ last.in.new_state = TNC_CONNECTION_STATE_DELETE
                        <=> ~states[c].present
C7_Witness ==
  /\ last.op = "NotifyConnectionChange"
  /\ last.in.new_state = TNC_CONNECTION_STATE_CREATE
  /\ HasRecord(last.pre, last.connection_id)
  /\ last.pre.states[last.connection_id].result =
       TNC_IMV_EVALUATION_RESULT_COMPLIANT
  /\ last.result # TNC_RESULT_SUCCESS

\* C8: after a NotifyConnectionChange(handshake) that returns success the
\* connection is in the handshake state with evaluation result "don't
\* know", whatever the result was before; one that does not succeed returns
\* "fatal" and writes nothing.
C8_HandshakeSeedsResult ==
  (/\ last.op = "NotifyConnectionChange"
   /\ Initialized(last.pre)
   /\ last.in.new_state = TNC_CONNECTION_STATE_HANDSHAKE) =>
     IF last.result = TNC_RESULT_SUCCESS
     THEN states[last.connection_id] =
            [present |-> TRUE, state |-> TNC_CONNECTION_STATE_HANDSHAKE,
             result |-> TNC_IMV_EVALUATION_RESULT_DONT_KNOW]
     ELSE /\ last.result = TNC_RESULT_FATAL
          /\ states = last.pre.states
C8_Witness ==
  /\ last.op = "NotifyConnectionChange"
  /\ last.in.new_state = TNC_CONNECTION_STATE_HANDSHAKE
  /\ last.result = TNC_RESULT_SUCCESS
  /\ last.pre.states[last.connection_id].result =
       TNC_IMV_EVALUATION_RESULT_COMPLIANT

\* C9: on an initialized collector BeginHandshake, ReceiveMessage and
\* ReceiveMessageLong for a connection identifier without a record return
\* "fatal", send nothing, call no measurement and make no record.
C9_UnknownConnectionIsFatal ==
  (/\ last.op \in ReceiveOps \cup {"BeginHandshake"}
   /\ Initialized(last.pre)
   /\ ~HasRecord(last.pre, last.connection_id)) =>
     /\ last.result = TNC_RESULT_FATAL
     /\ last.sends = <<>>
     /\ last.calls = <<>>
     /\ Globals = last.pre
C9_Witness ==
  /\ last.op = "BeginHandshake"
  /\ last.in.send_os_info
  /\ Initialized(last.pre)
  /\ ~HasRecord(last.pre, last.connection_id)
  /\ \E c \in ConnIds : HasRecord(last.pre, c)
  /\ last.result = TNC_RESULT_FATAL

\* the calls the dispatch owes to the attributes it has a handler for: one
\* per pair of an attribute request, one for a get settings
RECURSIVE OwedCalls(_)
OwedCalls(attrs) ==
  IF attrs = <<>> THEN <<>>
  ELSE LET a == Head(attrs)
       IN  (IF Ignored(a) THEN <<>>
            ELSE IF a.vendor_id = PEN_IETF
            THEN [i \in 1..Len(a.entries) |->
                    [vendor_id |-> a.entries[i].vendor_id,
                     type |-> a.entries[i].type, args |-> NoArgs]]
            ELSE <<[vendor_id |-> PEN_ITA, type |-> ITA_ATTR_SETTINGS,
                    args |-> Args(a.names)]>>)
           \o OwedCalls(Tail(attrs))

\* C10: in a well-formed inbound message an attribute of a vendor other
\* than IETF and ITA, an IETF attribute other than attribute request and an
\* ITA attribute other than get settings is ignored: the measurement calls
\* made are those of the other attributes of the message, all of them and
\* in order, the reply holds the attributes of these calls only, and the
\* result is "fatal" after a fatal error and else what the send returned.
C10_UnknownTypeTolerance ==
  (/\ last.op \in ReceiveOps
   /\ Initialized(last.pre)
   /\ HasRecord(last.pre, last.connection_id)
   /\ last.in.msg.parse_result = TNC_RESULT_SUCCESS) =>
     /\ Asked(last.calls) = OwedCalls(last.in.msg.attrs)
     /\ \A i \in 1..Len(last.sends) :
          last.sends[i].attrs = MeasuredAttrs(last.calls)
     /\ last.result = IF last.in.msg.fatal_error THEN TNC_RESULT_FATAL
                      ELSE last.sends[1].result
C10_Witness ==
  /\ last.op \in ReceiveOps
  /\ last.in.msg.parse_result = TNC_RESULT_SUCCESS
  /\ Len(last.in.msg.attrs) = 2
  /\ Ignored(last.in.msg.attrs[1])
  /\ last.in.msg.attrs[1].vendor_id \notin {PEN_IETF, PEN_ITA}
  /\ ~Ignored(last.in.msg.attrs[2])
  /\ Len(last.calls) = 1
  /\ Len(last.sends) = 1
  /\ Len(last.sends[1].attrs) = 1
  /\ last.result = TNC_RESULT_SUCCESS


\* C11: a ReceiveMessage or ReceiveMessageLong call whose message does not
\* parse returns a result other than success, sends nothing and leaves every
\* connection record (existence, lifecycle state, evaluation result) as it
\* was; and a later message on the same record (followed on connection 1)
\* that parses without fatal error is answered with one reply, the call
\* returning what the send returned (success when the transport accepts it).
C11_FramingErrorIsLocal ==
  /\ (/\ last.op \in ReceiveOps
      /\ Initialized(last.pre)
      /\ HasRecord(last.pre, last.connection_id)
      /\ last.in.msg.parse_result # TNC_RESULT_SUCCESS) =>
        /\ last.result # TNC_RESULT_SUCCESS
        /\ last.sends = <<>>
        /\ states = last.pre.states
        /\ last.connection_id = 1 => framed
  /\ (/\ last.op \in ReceiveOps
      /\ last.connection_id = 1
      /\ framed
      /\ last.in.msg.parse_result = TNC_RESULT_SUCCESS
      /\ ~last.in.msg.fatal_error) =>
        /\ states = last.pre.states
        /\ Len(last.sends) = 1
        /\ last.sends[1].reply
        /\ last.sends[1].connection_id = last.connection_id
        /\ last.result = last.sends[1].result
C11_Witness ==
  /\ last.op \in ReceiveOps
  /\ last.connection_id = 1
  /\ framed
  /\ last.in.msg.parse_result = TNC_RESULT_SUCCESS
  /\ ~last.in.msg.fatal_error
  /\ last.result = TNC_RESULT_SUCCESS
  /\ Len(last.sends) = 1
  /\ Len(last.sends[1].attrs) = 1


C13_BaselineSend ==
  (/\ last.op = "BeginHandshake"
   /\ Initialized(last.pre)
   /\ HasRecord(last.pre, last.connection_id)
   /\ last.in.send_os_info) =>
     /\ Asked(last.calls) =
          <<[vendor_id |-> PEN_IETF, type |-> IETF_ATTR_PRODUCT_INFORMATION,
             args |-> NoArgs],
            [vendor_id |-> PEN_IETF, type |-> IETF_ATTR_STRING_VERSION,
             args |-> NoArgs]>>
     /\ Len(last.sends) = 1
     /\ ~last.sends[1].excl
     /\ last.sends[1].connection_id = last.connection_id
     /\ last.sends[1].attrs = MeasuredAttrs(last.calls)
     /\ \A i \in 1..Len(last.sends[1].attrs) :
          last.sends[1].attrs[i].vendor_id = PEN_IETF
C13_Witness ==
  /\ last.op = "BeginHandshake"
  /\ last.in.send_os_info
  /\ Len(last.calls) = 2
  /\ ~Delivered(last.calls[1])
  /\ Delivered(last.calls[2])
  /\ Len(last.sends) = 1
  /\ ~last.sends[1].excl
  /\ Len(last.sends[1].attrs) = 1
  /\ last.sends[1].attrs[1].type = IETF_ATTR_STRING_VERSION

\* C14: one call of BeginHandshake, ReceiveMessage or ReceiveMessageLong
\* sends at most once; when it sends it returns what the send returned, so
\* a rejected send is reported to the caller and never sent again, and a
\* call that sent returns success only if the send succeeded.
C14_NoRetry ==
  (last.op \in ReceiveOps \cup {"BeginHandshake"}) =>
     /\ Len(last.sends) <= 1
     /\ Len(last.sends) = 1 =>
          /\ last.result = last.sends[1].result
          /\ last.result = TNC_RESULT_SUCCESS <=>
               last.sends[1].result = TNC_RESULT_SUCCESS
C14_Witness ==
  /\ last.op \in ReceiveOps
  /\ Len(last.sends) = 1
  /\ last.sends[1].result = TNC_RESULT_FATAL
  /\ last.result = TNC_RESULT_FATAL
  /\ Len(last.sends[1].attrs) = 1


\* the places of subsystem call e in the events of a call
Places(events, e) == {i \in 1..Len(events) : events[i] = e}

\* C15: a successful Terminate deinitializes the measurement subsystem, then
\* destroys the agent, then resets the imc_android handle: each happens
\* once, the deinitialization strictly before the destruction and the reset
\* after both.
C15_TerminateOrder ==
  (last.op = "Terminate" /\ last.result = TNC_RESULT_SUCCESS) =>
     /\ \A e \in {"libpts_deinit", "imc_agent_destroy", "imc_android_reset"} :
          Cardinality(Places(last.events, e)) = 1
     /\ \A i \in Places(last.events, "libpts_deinit"),
           j \in Places(last.events, "imc_agent_destroy"),
           k \in Places(last.events, "imc_android_reset") : i < j /\ j < k
     /\ libpts = last.pre.libpts - 1
     /\ agents = last.pre.agents - 1
     /\ imc_android = NULL
C15_Witness ==
  /\ last.op = "Terminate"
  /\ last.result = TNC_RESULT_SUCCESS
  /\ last.pre.libpts = 1
  /\ Len(last.events) = 3

\* C16: BatchEnding on an initialized collector returns success for every
\* connection identifier, with or without record, sends nothing, asks for
\* no measurement and changes neither the collector nor a record; it fails
\* only on a collector that is not initialized.
C16_BatchEndingNoOp ==
  (last.op = "BatchEnding") =>
     /\ Initialized(last.pre) => last.result = TNC_RESULT_SUCCESS
     /\ last.result # TNC_RESULT_SUCCESS => ~Initialized(last.pre)
     /\ last.sends = <<>>
     /\ last.calls = <<>>
     /\ last.events = <<>>
     /\ Globals = last.pre
C16_Witness ==
  /\ last.op = "BatchEnding"
  /\ Initialized(last.pre)
  /\ ~HasRecord(last.pre, last.connection_id)
  /\ \E c \in ConnIds : HasRecord(last.pre, c)
  /\ last.result = TNC_RESULT_SUCCESS


IsAttrRequest(a) ==
  a.vendor_id = PEN_IETF /\ a.type = IETF_ATTR_ATTRIBUTE_REQUEST
IsGetSettings(a) ==
  a.vendor_id = PEN_ITA /\ a.type = ITA_ATTR_GET_SETTINGS
\* the number of calls the attributes before the k-th have triggered
RECURSIVE CallsBefore(_, _)
CallsBefore(attrs, k) ==
  IF k <= 1 THEN 0
  ELSE CallsBefore(attrs, k - 1)
       + (IF IsAttrRequest(attrs[k-1]) THEN Len(attrs[k-1].entries)
          ELSE IF IsGetSettings(attrs[k-1]) THEN 1 ELSE 0)

\* C17: in a well-formed inbound message each attribute request triggers
\* one measurement call per listed pair, for that pair, in list order and
\* without arguments; each ITA get settings triggers one measurement call,
\* for (ITA, SETTINGS), whose arguments are the names the attribute carries,
\* in their order; no other call is made; and a get settings alone in a
\* message puts at most one attribute, typed (ITA, SETTINGS), in the reply.
C17_DispatchRule ==
  (/\ last.op \in ReceiveOps
   /\ Initialized(last.pre)
   /\ HasRecord(last.pre, last.connection_id)
   /\ last.in.msg.parse_result = TNC_RESULT_SUCCESS) =>
     LET attrs == last.in.msg.attrs
     IN  /\ Len(last.calls) = CallsBefore(attrs, Len(attrs) + 1)
         /\ \A k \in 1..Len(attrs) :
              LET a == attrs[k]
                  n == CallsBefore(attrs, k)
              IN  /\ IsAttrRequest(a) =>
                       \A i \in 1..Len(a.entries) :
                         /\ last.calls[n + i].vendor_id = a.entries[i].vendor_id
                         /\ last.calls[n + i].type = a.entries[i].type
                         /\ ~last.calls[n + i].args.present
                  /\ IsGetSettings(a) =>
                       /\ last.calls[n + 1].vendor_id = PEN_ITA
                       /\ last.calls[n + 1].type = ITA_ATTR_SETTINGS
                       /\ last.calls[n + 1].args.present
                       /\ last.calls[n + 1].args.names = a.names
         /\ (Len(attrs) = 1 /\ IsGetSettings(attrs[1])) =>
              \A s \in 1..Len(last.sends) :
                /\ Len(last.sends[s].attrs) <= 1
                /\ \A i \in 1..Len(last.sends[s].attrs) :
                     /\ last.sends[s].attrs[i].vendor_id = PEN_ITA
                     /\ last.sends[s].attrs[i].type = ITA_ATTR_SETTINGS
C17_Witness ==
  /\ last.op \in ReceiveOps
  /\ last.in.msg.parse_result = TNC_RESULT_SUCCESS
  /\ Len(last.in.msg.attrs) = 1
  /\ IsGetSettings(last.in.msg.attrs[1])
  /\ last.in.msg.attrs[1].names = <<"install_non_market_apps", "android_id">>
  /\ Len(last.calls) = 1
  /\ last.calls[1].args.names = <<"install_non_market_apps", "android_id">>
  /\ Len(last.sends) = 1
  /\ Len(last.sends[1].attrs) = 1
  /\ last.sends[1].attrs[1].type = ITA_ATTR_SETTINGS


C19_LibptsBalance ==
  /\ libpts = IF imc_android # NULL THEN 1 ELSE 0
  /\ (/\ last.op = "Initialize"
      /\ last.result \in {TNC_RESULT_FATAL, TNC_RESULT_ALREADY_INITIALIZED}) =>
        /\ libpts = last.pre.libpts
        /\ Places(last.events, "libpts_init") = {}
  /\ last.op = "Initialize" => Cardinality(Places(last.events, "libpts_init")) =
                                 libpts - last.pre.libpts
  /\ last.op = "Terminate" => Cardinality(Places(last.events, "libpts_deinit")) =
                                last.pre.libpts - libpts
C19_Witness ==
  /\ last.op = "Initialize"
  /\ last.result = TNC_RESULT_FATAL
  /\ last.events = <<"imc_agent_create">>
  /\ libpts = 0
  /\ imc_android = NULL


\* C20: every run of imc_android_register (registration that succeeds,
\* registration that fails at any point, load_from_functions refusing the
\* collector included, and unregistration) and of get_measurement attaches
\* the calling thread to the foreign runtime once and detaches it once, and
\* uses the env handle only between the two.
C20_AttachDetachBalance ==
  (jni.op # "") =>
     /\ Cardinality(Places(jni.trace, "attach")) = 1
     /\ Cardinality(Places(jni.trace, "detach")) = 1
     /\ \A i \in 1..Len(jni.trace) :
          jni.trace[i] \in EnvCalls =>
            /\ \E a \in Places(jni.trace, "attach") : a < i
            /\ \A d \in Places(jni.trace, "detach") : i < d

====
